---- MODULE Spec2Model ----
(***************************************************************************)
(* Model of middleware/rfc7807_handler.go: the Rfc7807Handler middleware   *)
(* (one invocation of the returned goa.Handler) and the cause() helper.    *)
(*                                                                         *)
(* Strings are sequences of tokens, so that fmt.Sprintf is concatenation   *)
(* and "contains" is a sub-sequence test.  An error value returned by the  *)
(* wrapped handler is a cause chain: e[1] is the returned (outermost)      *)
(* error, e[i+1] is what e[i].Cause() returns, and `link` says how the     *)
(* last element of the chain ends.                                         *)
(***************************************************************************)
EXTENDS Integers, Sequences, FiniteSets, TLC

\* ---------------------------------------------------------------- bounds
MaxChain == 3

\* ------------------------------------------------------------- constants
StatusInternalServerError == 500
StatusNotFound == 404

Rfc7807JsonMediaIdentifier == <<"application/problem+json">>
TextPlain == <<"text/plain">>
UncaughtError == <<"uncaught error">>

\* http.StatusText(http.StatusInternalServerError)
StatusText500 == <<"Internal", "Server", "Error">>

\* ------------------------------------------------------------ input sets
Statuses == {StatusNotFound, StatusInternalServerError}
Tokens == {<<>>, <<"tok">>}
Msgs == {<<"disk", "full">>, <<"failed", "to", "save">>}
SvcMsg == <<"service", "error">>
IDs == {<<"idA">>, <<"idB">>}

None == [ok |-> FALSE]
Some(v) == [ok |-> TRUE, v |-> v]

\* An error that is not a goa.ServiceError
OpaqueErrors == [svc : {FALSE}, status : {0}, token : {<<>>}, msg : Msgs]
\* An error that implements goa.ServiceError (ResponseStatus, Token)
ServiceErrors == [svc : {TRUE}, status : Statuses, token : Tokens, msg : {SvcMsg}]
Errors == OpaqueErrors \cup ServiceErrors

Chains == UNION {[1..n -> Errors] : n \in 1..MaxChain}

\* How the last error of a chain ends: it has no Cause method, its Cause()
\* returns nil, or its Cause() returns the k-th error of the chain (a cycle).
Links(c) == {<<"nocauser">>, <<"nilcause">>} \cup {<<"cycle", k>> : k \in 1..Len(c)}

VARIABLES
    verbose,      \* the verbose argument of Rfc7807Handler
    pc,           \* position in the handler
    e,            \* the error returned by h, as a cause chain (<<>> = nil)
    link,         \* how the chain ends
    cur,          \* the variable e of cause(): index in the chain
    reqCtx,       \* ctx.Value(reqIDKey) of the ctx the handler was called with
    ctxReqID,     \* ctx.Value(reqIDKey) of the local variable ctx
    status,       \* local status
    respBody,     \* local respBody
    contentType,  \* rw.Header()["Content-Type"]
    errorCode,    \* goa.ContextResponse(ctx).ErrorCode
    logs,         \* records handed to goa.LogError
    sent,         \* calls of service.Send
    ret,          \* what the handler returned
    genCalls      \* number of calls of shortID()

vars == <<verbose, pc, e, link, cur, reqCtx, ctxReqID, status, respBody, contentType,
          errorCode, logs, sent, ret, genCalls>>

NoBody == [kind |-> "none"]

\* ------------------------------------------------------------- helpers
\* err.Error()
Error(err) == err.msg

\* fmt.Sprintf("%+v", err)
FormatPlusV(err) == <<"%+v">> \o Error(err)

\* fmt.Sprintf("%s [%s]", http.StatusText(500), reqID)
RedactedMsg(reqID) == StatusText500 \o <<" [">> \o reqID \o <<"]">>

\* goa.ErrInternal(msg): a *goa.ErrorResponse with a newly generated ID
ErrInternal(msg, newID) ==
    [kind |-> "goa.ErrorResponse", id |-> newID, code |-> <<"internal">>,
     status |-> StatusInternalServerError, detail |-> msg]

\* respBody = err, for err a goa.ServiceError
ServiceBody(err) ==
    [kind |-> "goa.ServiceError", status |-> err.status, token |-> err.token,
     msg |-> err.msg]

\* respBody = e.Error()
PlainBody(text) == [kind |-> "string", text |-> text]

Contains(s, sub) ==
    \E i \in 0..(Len(s) - Len(sub)) : SubSeq(s, i + 1, i + Len(sub)) = sub

\* ------------------------------------------------------------ cause()
IsCauserNever(c, l, i) == FALSE

\* cause, ok := e.(causer)
IsCauser(c, l, i) == i < Len(c) \/ l[1] # "nocauser"

\* c := cause.Cause(); 0 stands for nil
CauseOf(c, l, i) ==
    IF i < Len(c) THEN i + 1
    ELSE IF l[1] = "cycle" THEN l[2] ELSE 0

\* ------------------------------------------------------------ handler
Init ==
    /\ verbose \in BOOLEAN
    /\ pc = "idle"
    /\ e = <<>>
    /\ link = <<"nocauser">>
    /\ cur = 0
    /\ reqCtx \in {None} \cup {Some(i) : i \in IDs}
    /\ ctxReqID = reqCtx
    /\ status = 0
    /\ respBody = NoBody
    /\ contentType = <<>>
    /\ errorCode = <<>>
    /\ logs = <<>>
    /\ sent = <<>>
    /\ ret = "unset"
    /\ genCalls = 0

\* e := h(ctx, rw, req); if e == nil { return nil }
CallNextNil ==
    /\ pc = "idle"
    /\ pc' = "done"
    /\ ret' = "nil"
    /\ UNCHANGED <<verbose, reqCtx, e, link, cur, ctxReqID, status, respBody,
                   contentType, errorCode, logs, sent, genCalls>>

\* e := h(ctx, rw, req) with e != nil; enters cause(e)
CallNextErr ==
    /\ pc = "idle"
    /\ \E c \in Chains : \E l \in Links(c) :
          /\ e' = c
          /\ link' = l
    /\ cur' = 1
    /\ pc' = "cause"
    /\ UNCHANGED <<verbose, reqCtx, ctxReqID, status, respBody, contentType,
                   errorCode, logs, sent, ret, genCalls>>

\* cause, ok := e.(causer); if !ok { break }; return e
CauseNotCauser ==
    /\ pc = "cause"
    /\ ~IsCauser(e, link, cur)
    /\ pc' = "classify"
    /\ UNCHANGED <<verbose, reqCtx, e, link, cur, ctxReqID, status, respBody,
                   contentType, errorCode, logs, sent, ret, genCalls>>

\* cause, ok := e.(causer) with ok true: goes on to call Cause()
CauseIsCauser ==
    /\ pc = "cause"
    /\ IsCauser(e, link, cur)
    /\ pc' = "causeCall"
    /\ UNCHANGED <<verbose, reqCtx, e, link, cur, ctxReqID, status, respBody,
                   contentType, errorCode, logs, sent, ret, genCalls>>

\* c := cause.Cause(); if c == nil { break }; return e
CauseNil ==
    /\ pc = "causeCall"
    /\ CauseOf(e, link, cur) = 0
    /\ pc' = "classify"
    /\ UNCHANGED <<verbose, reqCtx, e, link, cur, ctxReqID, status, respBody,
                   contentType, errorCode, logs, sent, ret, genCalls>>

\* c := cause.Cause() with c != nil; e = c and the loop goes round
CauseUnwrap ==
    /\ pc = "causeCall"
    /\ CauseOf(e, link, cur) # 0
    /\ cur' = CauseOf(e, link, cur)
    /\ pc' = "cause"
    /\ UNCHANGED <<verbose, reqCtx, e, link, ctxReqID, status, respBody,
                   contentType, errorCode, logs, sent, ret, genCalls>>

\* err, ok := cause.(goa.ServiceError)
IsServiceError(err) == err.svc

ResponseStatusAlways500(err) == StatusInternalServerError

\* err.ResponseStatus()
ResponseStatus(err) == err.status

OpaqueTextOfCause(c, i) == Error(c[i])

\* e.Error(): the text of the error h returned, not of its cause
OpaqueText(c, i) == Error(c[1])

\* the classification step
Classify ==
    /\ pc = "classify"
    /\ IF IsServiceError(e[cur])
       THEN /\ status' = ResponseStatus(e[cur])
            /\ respBody' = ServiceBody(e[cur])
            /\ errorCode' = e[cur].token
            /\ contentType' = Rfc7807JsonMediaIdentifier
       ELSE /\ status' = StatusInternalServerError
            /\ respBody' = PlainBody(OpaqueText(e, cur))
            /\ contentType' = TextPlain
            /\ UNCHANGED errorCode
    /\ pc' = "check500"
    /\ UNCHANGED <<verbose, reqCtx, e, link, cur, ctxReqID, logs, sent, ret, genCalls>>

Is500Always(s) == TRUE

\* if status == http.StatusInternalServerError
Is500(s) == s = StatusInternalServerError

\* status is not 500: the block is skipped
Skip500 ==
    /\ pc = "check500"
    /\ ~Is500(status)
    /\ pc' = "send"
    /\ UNCHANGED <<verbose, reqCtx, e, link, cur, ctxReqID, status, respBody,
                   contentType, errorCode, logs, sent, ret, genCalls>>

NeedsNewIDAlways(v) == TRUE

\* reqID := ctx.Value(reqIDKey); if reqID == nil
NeedsNewID(v) == ~v.ok

\* The goa.LogError call
LogRecord(ctxv, reqID) ==
    [tag |-> UncaughtError, err |-> FormatPlusV(e[1]), id |-> reqID,
     msg |-> respBody, ctx |-> ctxv]

\* status is 500: obtain or create the request id, then goa.LogError
LogUncaught ==
    /\ pc = "check500"
    /\ Is500(status)
    /\ IF NeedsNewID(ctxReqID)
       THEN \E id \in IDs :
              /\ ctxReqID' = Some(id)
              /\ genCalls' = genCalls + 1
       ELSE UNCHANGED <<ctxReqID, genCalls>>
    /\ logs' = Append(logs, LogRecord(ctxReqID', ctxReqID'.v))
    /\ pc' = "redact"
    /\ UNCHANGED <<verbose, reqCtx, e, link, cur, status, respBody, contentType,
                   errorCode, sent, ret>>

RedactsAlways(v) == TRUE

\* if !verbose
Redacts(v) == ~v

\* verbose: the body and the content type are left alone
KeepVerbose ==
    /\ pc = "redact"
    /\ ~Redacts(verbose)
    /\ pc' = "send"
    /\ UNCHANGED <<verbose, reqCtx, e, link, cur, ctxReqID, status, respBody,
                   contentType, errorCode, logs, sent, ret, genCalls>>

\* !verbose and ErrorCode == "": the body becomes goa.ErrInternal(msg)
Redact ==
    /\ pc = "redact"
    /\ Redacts(verbose)
    /\ errorCode = <<>>
    /\ contentType' = Rfc7807JsonMediaIdentifier
    /\ \E newID \in IDs :
          respBody' = ErrInternal(RedactedMsg(ctxReqID.v), newID)
    /\ pc' = "send"
    /\ UNCHANGED <<verbose, reqCtx, e, link, cur, ctxReqID, status, errorCode, logs,
                   sent, ret, genCalls>>

\* !verbose and ErrorCode != "": respBody.(*Rfc7807Response) is asserted on
\* the *goa.ErrorResponse that goa.ErrInternal returned; the assertion fails
\* and the handler panics
RedactPanic ==
    /\ pc = "redact"
    /\ Redacts(verbose)
    /\ errorCode # <<>>
    /\ contentType' = Rfc7807JsonMediaIdentifier
    /\ \E newID \in IDs :
          respBody' = ErrInternal(RedactedMsg(ctxReqID.v), newID)
    /\ pc' = "panicked"
    /\ UNCHANGED <<verbose, reqCtx, e, link, cur, ctxReqID, status, errorCode, logs,
                   sent, ret, genCalls>>

\* return service.Send(ctx, status, respBody)
Send ==
    /\ pc = "send"
    /\ \E r \in {"nil", "senderr"} :
          /\ sent' = Append(sent, [ctx |-> ctxReqID, status |-> status,
                                   body |-> respBody,
                                   contentType |-> contentType,
                                   result |-> r])
          /\ ret' = r
    /\ pc' = "done"
    /\ UNCHANGED <<verbose, reqCtx, e, link, cur, ctxReqID, status, respBody,
                   contentType, errorCode, logs, genCalls>>

Next ==
    \/ CallNextNil
    \/ CallNextErr
    \/ CauseNotCauser
    \/ CauseIsCauser
    \/ CauseNil
    \/ CauseUnwrap
    \/ Classify
    \/ Skip500
    \/ LogUncaught
    \/ KeepVerbose
    \/ Redact
    \/ RedactPanic
    \/ Send

Spec == Init /\ [][Next]_vars

\* the handler runs to its end: every step is taken when it is enabled
LiveSpec == Init /\ [][Next]_vars /\ WF_vars(Next)

\* ------------------------------------------------------------ properties
\* the handler has returned or panicked
Ended == pc \in {"done", "panicked"}

\* the last error of a finite chain: where unwrapping stops
Innermost == e[Len(e)]

\* C1: in non-verbose mode, for every non-nil error that resolves to status
\* 500, with any error token, the body handed to the response sender is a
\* problem body whose detail is exactly "Internal Server Error [<id>]" with
\* <id> the identifier of the log record, the detail does not contain the
\* original error's message, and the content type is application/problem+json.
C1_RedactedDetail ==
    (Ended /\ e # <<>> /\ ~verbose /\ status = StatusInternalServerError) =>
        /\ Len(sent) = 1
        /\ Len(logs) = 1
        /\ sent[1].body.kind = "goa.ErrorResponse"
        /\ sent[1].body.detail =
              <<"Internal", "Server", "Error", " [">> \o logs[1].id \o <<"]">>
        /\ ~Contains(sent[1].body.detail, e[1].msg)
        /\ sent[1].contentType = <<"application/problem+json">>

\* C2: for every failure that resolves to status 500 and is redacted, the
\* identifier field of the body sent to the client equals the "id" field of
\* the "uncaught error" log record of the same failure.
C2_TraceIdMatchesLog ==
    (Ended /\ e # <<>> /\ ~verbose /\ status = StatusInternalServerError) =>
        /\ Len(sent) = 1
        /\ Len(logs) = 1
        /\ sent[1].body.kind = "goa.ErrorResponse"
        /\ sent[1].body.id = logs[1].id

\* C3: for every non-nil error the handler never aborts: it ends having
\* called the response sender exactly once with the resolved status and body
\* and returns the sender's result.
C3_NeverAborts ==
    /\ pc # "panicked"
    /\ (pc = "done" /\ e # <<>>) =>
          /\ Len(sent) = 1
          /\ sent[1].status = status
          /\ sent[1].body = respBody
          /\ ret = sent[1].result

\* C4: when the root cause is a structured error with declared status S other
\* than 500, in both modes the status sent is S, the body sent is the
\* structured error itself, the content type is application/problem+json,
\* the error's token is recorded as the error code and nothing is logged.
C4_StructuredPassThrough ==
    (pc = "done" /\ e # <<>> /\ Innermost.svc
        /\ Innermost.status # StatusInternalServerError) =>
        /\ Len(sent) = 1
        /\ sent[1].status = Innermost.status
        /\ sent[1].body = [kind |-> "goa.ServiceError",
                           status |-> Innermost.status,
                           token |-> Innermost.token, msg |-> Innermost.msg]
        /\ sent[1].contentType = <<"application/problem+json">>
        /\ errorCode = Innermost.token
        /\ logs = <<>>

C4_Witness ==
    /\ pc = "done"
    /\ ~verbose
    /\ Len(e) = 1
    /\ e[1].svc
    /\ e[1].status = StatusNotFound
    /\ e[1].token = <<"tok">>
    /\ Len(sent) = 1
    /\ sent[1].status = StatusNotFound
    /\ logs = <<>>

\* C5: one invocation emits exactly one log record when the failure resolves
\* to status 500 and none when the error is nil or the status is not 500; the
\* record is tagged "uncaught error", carries the correlation identifier and
\* is emitted before the response is sent; on a nil error nothing is sent and
\* nil is returned.
C5_LogCount ==
    /\ (Ended /\ e # <<>> /\ status = StatusInternalServerError) =>
          /\ Len(logs) = 1
          /\ logs[1].tag = <<"uncaught error">>
          /\ ctxReqID.ok
          /\ logs[1].id = ctxReqID.v
    /\ (Ended /\ (e = <<>> \/ status # StatusInternalServerError)) =>
          logs = <<>>
    /\ (Ended /\ e = <<>>) => (sent = <<>> /\ ret = "nil")
    /\ (sent # <<>> /\ status = StatusInternalServerError) => Len(logs) = 1
    /\ Len(logs) <= 1

C5_Witness ==
    /\ pc = "done"
    /\ Len(e) >= 1
    /\ status = StatusInternalServerError
    /\ Len(logs) = 1
    /\ Len(sent) = 1

\* C6: in verbose mode, for every failure resolving to status 500, the body
\* and content type handed to the sender are those of the classification
\* step: the structured root cause with application/problem+json, or the
\* returned error's message with text/plain.
C6_VerboseUnmodified ==
    (pc = "done" /\ e # <<>> /\ verbose
        /\ status = StatusInternalServerError) =>
        /\ Len(sent) = 1
        /\ IF Innermost.svc
           THEN /\ sent[1].body = [kind |-> "goa.ServiceError",
                                   status |-> Innermost.status,
                                   token |-> Innermost.token,
                                   msg |-> Innermost.msg]
                /\ sent[1].contentType = <<"application/problem+json">>
           ELSE /\ sent[1].body = [kind |-> "string", text |-> e[1].msg]
                /\ sent[1].contentType = <<"text/plain">>

C6_Witness ==
    /\ pc = "done"
    /\ verbose
    /\ Len(e) = 2
    /\ Innermost.svc
    /\ Innermost.token = <<"tok">>
    /\ status = StatusInternalServerError
    /\ Len(logs) = 1
    /\ genCalls = 1
    /\ sent[1].body.kind = "goa.ServiceError"

\* C7: cause resolution terminates for every input error, a cyclic cause
\* chain included: the unwrapping loop always reaches its return.
C7_CauseTerminates == (pc \in {"cause", "causeCall"}) ~> (pc = "classify")

\* C8 as stated: if any error at any depth of a finite chain is structured,
\* the failure is classified as structured and the sent status is the
\* declared status of a structured error of the chain.
C8_AnyDepthStructured ==
    LET structured == {i \in 1..Len(e) : e[i].svc} IN
    /\ (pc = "check500" /\ structured # {}) =>
          respBody.kind = "goa.ServiceError"
    /\ (pc = "done" /\ e # <<>> /\ structured # {}) =>
          \E i \in structured : sent[1].status = e[i].status

\* C8 as amended: only the innermost error of a finite chain, where
\* unwrapping stops, decides: the failure is classified as structured exactly
\* when the innermost error is structured, at whatever depth it lies, and the
\* sent status is then its declared status; otherwise the status is 500, also
\* when an outer error of the chain is structured.
C8_InnermostStructured ==
    /\ pc = "check500" =>
          (respBody.kind = "goa.ServiceError" <=> Innermost.svc)
    /\ (pc = "done" /\ e # <<>>) =>
          /\ Len(sent) = 1
          /\ sent[1].status = IF Innermost.svc THEN Innermost.status
                              ELSE StatusInternalServerError

C8_Witness ==
    /\ pc = "done"
    /\ Len(e) = 3
    /\ ~e[1].svc
    /\ ~e[2].svc
    /\ e[3].svc
    /\ e[3].status = StatusNotFound
    /\ sent[1].status = StatusNotFound

\* C9: for a wrapped error the text shown and logged is that of the returned
\* (outermost) error: when the root cause is opaque the body before redaction
\* is the outermost error's message, and for every failure resolving to 500
\* the log record's "err" field is the formatting of the outermost error.
C9_OutermostText ==
    /\ (pc = "check500" /\ ~Innermost.svc) =>
          respBody = [kind |-> "string", text |-> e[1].msg]
    /\ (Ended /\ e # <<>> /\ status = StatusInternalServerError) =>
          /\ Len(logs) = 1
          /\ logs[1].err = <<"%+v">> \o e[1].msg
          /\ (~Innermost.svc =>
                logs[1].msg = [kind |-> "string", text |-> e[1].msg])

C9_Witness ==
    /\ pc = "done"
    /\ verbose
    /\ Len(e) = 3
    /\ ~Innermost.svc
    /\ e[1].msg = <<"failed", "to", "save">>
    /\ Innermost.msg = <<"disk", "full">>
    /\ sent[1].body = [kind |-> "string", text |-> <<"failed", "to", "save">>]
    /\ logs[1].err = <<"%+v", "failed", "to", "save">>

\* C10: when a failure resolves to 500 and the context already carries an
\* identifier, it is reused in the log record and the redacted detail and the
\* generator is not called; when the context carries none the generator is
\* called exactly once and the new identifier is attached to the context
\* handed to the logger and the sender; when the status is not 500 or the
\* error is nil the generator is never called and the context is unchanged.
C10_IdLifecycle ==
    /\ (Ended /\ e # <<>> /\ status = StatusInternalServerError /\ reqCtx.ok) =>
          /\ genCalls = 0
          /\ ctxReqID = reqCtx
          /\ Len(logs) = 1
          /\ logs[1].id = reqCtx.v
          /\ (~verbose =>
                /\ respBody.kind = "goa.ErrorResponse"
                /\ respBody.detail =
                      <<"Internal", "Server", "Error", " [">> \o reqCtx.v
                         \o <<"]">>)
    /\ (Ended /\ e # <<>> /\ status = StatusInternalServerError /\ ~reqCtx.ok) =>
          /\ genCalls = 1
          /\ ctxReqID.ok
          /\ Len(logs) = 1
          /\ logs[1].id = ctxReqID.v
          /\ logs[1].ctx = ctxReqID
          /\ (pc = "done" => sent[1].ctx = ctxReqID)
          /\ (~verbose =>
                /\ respBody.kind = "goa.ErrorResponse"
                /\ respBody.detail =
                      <<"Internal", "Server", "Error", " [">> \o ctxReqID.v
                         \o <<"]">>)
    /\ (Ended /\ (e = <<>> \/ status # StatusInternalServerError)) =>
          /\ genCalls = 0
          /\ ctxReqID = reqCtx
    /\ genCalls <= 1

C10_Witness ==
    /\ pc = "done"
    /\ ~verbose
    /\ ~reqCtx.ok
    /\ genCalls = 1
    /\ ctxReqID.ok
    /\ Len(sent) = 1
    /\ sent[1].ctx = ctxReqID
    /\ sent[1].body.kind = "goa.ErrorResponse"
    /\ sent[1].body.detail = <<"Internal", "Server", "Error", " [">>
                                \o ctxReqID.v \o <<"]">>

====
